---- MODULE Spec2Model ----
(***************************************************************************)
(* A model of src/expense_tracker.py: the expenses table, the form and     *)
(* filter widgets of ExpenseTrackerApp and its button handlers.            *)
(*                                                                         *)
(* Text is modelled as a sequence of one-character strings, so that        *)
(* strip(), strptime(), float() and SQL's LIKE and text comparison are     *)
(* computed character by character, as the code computes them.             *)
(*                                                                         *)
(* The model is of the build in which tkcalendar is not installed          *)
(* (HAS_TKCALENDAR = False, lines 42-47): the date widgets are plain       *)
(* ttk.Entry fields, the fallback the code documents.                      *)
(***************************************************************************)
EXTENDS Integers, Sequences, FiniteSets, TLC

(***************************************************************************)
(* Characters and text.                                                    *)
(***************************************************************************)

\* The printable ASCII characters in code-point order; Ascii[i] has code 31 + i.
\* (The double quote, the backslash and the grave accent, which no text of the
\* model holds, are written as place holders.)
Ascii ==
  << " ", "!", "<34>", "#", "$", "%", "&", "'", "(", ")", "*", "+", ",", "-", ".", "/",
     "0", "1", "2", "3", "4", "5", "6", "7", "8", "9", ":", ";", "<", "=", ">", "?",
     "@", "A", "B", "C", "D", "E", "F", "G", "H", "I", "J", "K", "L", "M", "N", "O",
     "P", "Q", "R", "S", "T", "U", "V", "W", "X", "Y", "Z", "[", "<92>", "]", "^", "_",
     "<96>", "a", "b", "c", "d", "e", "f", "g", "h", "i", "j", "k", "l", "m", "n", "o",
     "p", "q", "r", "s", "t", "u", "v", "w", "x", "y", "z", "{", "|", "}", "~" >>

AsciiSet == { Ascii[i] : i \in 1..Len(Ascii) }

\* ord(c)
Ord == [ c \in AsciiSet |-> 31 + (CHOOSE i \in 1..Len(Ascii) : Ascii[i] = c) ]

IsDigit(c) == Ord[c] >= 48 /\ Ord[c] <= 57

DigitVal(c) == Ord[c] - 48

\* ASCII lower-casing, the only case folding SQLite's LIKE does.
Lower(c) == IF Ord[c] >= 65 /\ Ord[c] <= 90 THEN Ascii[Ord[c] + 32 - 31] ELSE c

RECURSIVE LStrip(_)
LStrip(s) == IF s # <<>> /\ Head(s) = " " THEN LStrip(Tail(s)) ELSE s

RECURSIVE RStrip(_)
RStrip(s) ==
  IF s # <<>> /\ s[Len(s)] = " " THEN RStrip(SubSeq(s, 1, Len(s) - 1)) ELSE s

\* str.strip()
strip(s) == RStrip(LStrip(s))

\* str.replace(",", "")
RECURSIVE RemoveCommas(_)
RemoveCommas(s) ==
  IF s = <<>> THEN <<>>
  ELSE IF Head(s) = "," THEN RemoveCommas(Tail(s))
  ELSE <<Head(s)>> \o RemoveCommas(Tail(s))

\* Comparison of two TEXT values under SQLite's default BINARY collation
\* (memcmp, then the shorter one first): a < b.
RECURSIVE TextLess(_, _)
TextLess(a, b) ==
  IF b = <<>> THEN FALSE
  ELSE IF a = <<>> THEN TRUE
  ELSE IF Head(a) # Head(b) THEN Ord[Head(a)] < Ord[Head(b)]
  ELSE TextLess(Tail(a), Tail(b))

TextLeq(a, b) == a = b \/ TextLess(a, b)

RECURSIVE DigitsVal(_)
DigitsVal(s) ==
  IF s = <<>> THEN 0 ELSE 10 * DigitsVal(SubSeq(s, 1, Len(s) - 1)) + DigitVal(s[Len(s)])

AllDigits(s) == \A i \in 1..Len(s) : IsDigit(s[i])

(***************************************************************************)
(* Dates: datetime.strptime(value, "%Y-%m-%d").date() and strftime.        *)
(***************************************************************************)

\* %m : 1[0-2]|0[1-9]|[1-9]
MonthToken(t) ==
  \/ Len(t) = 2 /\ t[1] = "1" /\ t[2] \in {"0", "1", "2"}
  \/ Len(t) = 2 /\ t[1] = "0" /\ IsDigit(t[2]) /\ t[2] # "0"
  \/ Len(t) = 1 /\ IsDigit(t[1]) /\ t[1] # "0"

\* %d : 3[0-1]|[1-2]\d|0[1-9]|[1-9]| [1-9]
DayToken(t) ==
  \/ Len(t) = 2 /\ t[1] = "3" /\ t[2] \in {"0", "1"}
  \/ Len(t) = 2 /\ t[1] \in {"1", "2"} /\ IsDigit(t[2])
  \/ Len(t) = 2 /\ t[1] = "0" /\ IsDigit(t[2]) /\ t[2] # "0"
  \/ Len(t) = 1 /\ IsDigit(t[1]) /\ t[1] # "0"
  \/ Len(t) = 2 /\ t[1] = " " /\ IsDigit(t[2]) /\ t[2] # "0"

TokenVal(t) == DigitsVal(LStrip(t))

IsLeap(y) == (y % 4 = 0 /\ y % 100 # 0) \/ y % 400 = 0

DaysInMonth(y, m) ==
  IF m = 2 THEN (IF IsLeap(y) THEN 29 ELSE 28)
  ELSE IF m \in {4, 6, 9, 11} THEN 30 ELSE 31

NoDate == [ok |-> FALSE, y |-> 0, m |-> 0, d |-> 0]

\* The lengths of the month and day fields under which value matches the
\* whole of %Y-%m-%d; at most one pair does, the hyphens fix the split.
DateSplits(value) ==
  { ml \in {<<1, 1>>, <<1, 2>>, <<2, 1>>, <<2, 2>>} :
      /\ Len(value) = 6 + ml[1] + ml[2]
      /\ AllDigits(SubSeq(value, 1, 4))
      /\ value[5] = "-"
      /\ MonthToken(SubSeq(value, 6, 5 + ml[1]))
      /\ value[6 + ml[1]] = "-"
      /\ DayToken(SubSeq(value, 7 + ml[1], Len(value))) }

\* parse_date_str: the date, or ok = FALSE where strptime/date raise ValueError.
parse_date_str(value) ==
  IF DateSplits(value) = {} THEN NoDate
  ELSE LET ml == CHOOSE x \in DateSplits(value) : TRUE
           y  == DigitsVal(SubSeq(value, 1, 4))
           m  == TokenVal(SubSeq(value, 6, 5 + ml[1]))
           d  == TokenVal(SubSeq(value, 7 + ml[1], Len(value)))
       IN  IF y >= 1 /\ d <= DaysInMonth(y, m)
           THEN [ok |-> TRUE, y |-> y, m |-> m, d |-> d]
           ELSE NoDate

RECURSIVE Digits(_, _)
\* n written with at least w digits, zero-padded.
Digits(n, w) ==
  IF w <= 1 /\ n < 10 THEN <<Ascii[n + 17]>>
  ELSE Digits(n \div 10, w - 1) \o <<Ascii[(n % 10) + 17]>>

\* format_date: d.strftime("%Y-%m-%d").  The C library's strftime (glibc) writes
\* %Y without padding: the year 999 comes out as "999"; %m and %d are padded.
format_date(d) == Digits(d.y, 1) \o <<"-">> \o Digits(d.m, 2) \o <<"-">> \o Digits(d.d, 2)

(***************************************************************************)
(* Amounts.  A float is held as a whole number of thousandths, which is    *)
(* exact for the decimal texts of at most three fraction digits the model  *)
(* types into the form; NaN is a value of its own.                         *)
(***************************************************************************)

NotANumber == [ok |-> FALSE, nan |-> FALSE, val |-> 0]

IsNanText(s) == Len(s) = 3 /\ Lower(s[1]) = "n" /\ Lower(s[2]) = "a" /\ Lower(s[3]) = "n"

DotPos(s) == { i \in 1..Len(s) : s[i] = "." }

\* The thousandths of the fraction digits f (digits past the third are dropped).
FracThousandths(f) ==
  DigitsVal(SubSeq(f \o <<"0", "0", "0">>, 1, 3))

\* An unsigned decimal: digits [ "." digits ], with a digit on one side at least.
UnsignedDecimal(s) ==
  IF DotPos(s) = {} THEN
    IF s # <<>> /\ AllDigits(s) THEN [ok |-> TRUE, nan |-> FALSE, val |-> 1000 * DigitsVal(s)]
    ELSE NotANumber
  ELSE LET p == CHOOSE i \in DotPos(s) : \A j \in DotPos(s) : i <= j
           w == SubSeq(s, 1, p - 1)
           f == SubSeq(s, p + 1, Len(s))
       IN  IF AllDigits(w) /\ AllDigits(f) /\ Len(w) + Len(f) >= 1
           THEN [ok |-> TRUE, nan |-> FALSE, val |-> 1000 * DigitsVal(w) + FracThousandths(f)]
           ELSE NotANumber

\* float(s) for plain decimal texts and "nan": ok = FALSE where float raises
\* ValueError.  Exponents, underscores and infinities are not in the model's texts.
float(s0) ==
  LET s    == strip(s0)
      sign == IF s # <<>> /\ Head(s) = "-" THEN -1 ELSE 1
      body == IF s # <<>> /\ Head(s) \in {"-", "+"} THEN Tail(s) ELSE s
  IN  IF IsNanText(body) THEN [ok |-> TRUE, nan |-> TRUE, val |-> 0]
      ELSE LET u == UnsignedDecimal(body)
           IN  IF u.ok THEN [u EXCEPT !.val = sign * u.val] ELSE NotANumber

\* f"{amount:.2f}" of a non-negative amount: rounded to the nearest hundredth.
\* (Texts whose third fraction digit is 5 are not typed in this model: there the
\* result depends on the binary value of the double.)
FormatAmount(val) ==
  LET h == (val + 5) \div 10
  IN  Digits(h \div 100, 1) \o <<".">> \o Digits(h % 100, 2)

(***************************************************************************)
(* SQL LIKE, as SQLite evaluates it by default: % matches any run of       *)
(* characters, _ any one character, letters match without regard to ASCII  *)
(* case, there is no escape character.                                     *)
(***************************************************************************)

RECURSIVE Like(_, _)
Like(pattern, text) ==
  IF pattern = <<>> THEN text = <<>>
  ELSE IF Head(pattern) = "%" THEN
         \E k \in 0..Len(text) : Like(Tail(pattern), SubSeq(text, k + 1, Len(text)))
  ELSE IF text = <<>> THEN FALSE
  ELSE IF Head(pattern) = "_" THEN Like(Tail(pattern), Tail(text))
  ELSE Lower(Head(pattern)) = Lower(Head(text)) /\ Like(Tail(pattern), Tail(text))

(***************************************************************************)
(* The texts typed into the widgets.                                       *)
(***************************************************************************)

\* "2024-01-15"
DateCanonical == <<"2", "0", "2", "4", "-", "0", "1", "-", "1", "5">>

\* "2024-1-5": strptime accepts it (5 January), yet it is not zero-padded.
DateShort == <<"2", "0", "2", "4", "-", "1", "-", "5">>

\* "2024-02-01"
DateFebruary == <<"2", "0", "2", "4", "-", "0", "2", "-", "0", "1">>

\* "2024-02-30": no such day.
DateInvalid == <<"2", "0", "2", "4", "-", "0", "2", "-", "3", "0">>

\* date.today()
Today == [ok |-> TRUE, y |-> 2024, m |-> 3, d |-> 10]

\* CATEGORIES = ["Snapp", "Food", "Miscellaneous"]
CATEGORIES == << <<"S", "n", "a", "p", "p">>, <<"F", "o", "o", "d">>, <<"M", "i", "s", "c", "e", "l", "l", "a", "n", "e", "o", "u", "s">> >>

EmptyText == <<>>

\* "1,234.567"
AmountGrouped == <<"1", ",", "2", "3", "4", ".", "5", "6", "7">>

\* "7"
AmountWhole == <<"7">>

\* "-3"
AmountNegative == <<"-", "3">>

\* "x"
AmountWord == <<"x">>

\* "nan"
AmountNan == <<"n", "a", "n">>

\* "tea"
DescriptionTea == <<"t", "e", "a">>

\* "A"
MissionA == <<"A">>

\* " Ab": the form strips it, "Ab" is stored.
MissionAb == <<" ", "A", "b">>

\* "r.jpg": the path _save_image_to_receipts returns (receipts/receipt_<timestamp>.jpg),
\* which the user may also type into the Image field, whether or not the file exists.
ReceiptImage == <<"r", ".", "j", "p", "g">>

\* A complete filling of the six typed form fields.
BaseForm ==
  [date_input |-> DateCanonical, category_var |-> CATEGORIES[2],
   amount_var |-> AmountGrouped, description_entry |-> DescriptionTea,
   mission_entry |-> MissionA, image_path_var |-> EmptyText]

\* A valid filling that differs from BaseForm in every field.
OtherForm ==
  [date_input |-> DateShort, category_var |-> CATEGORIES[1],
   amount_var |-> AmountWhole, description_entry |-> EmptyText,
   mission_entry |-> MissionAb, image_path_var |-> ReceiptImage]

\* BaseForm with the amount NaN: _validate_form lets it pass, the table does not.
NanForm == [BaseForm EXCEPT !.amount_var = AmountNan]

\* The fillings the user types: the two above, and the one with the amount NaN.
\* (The Category box is read-only: it holds one of CATEGORIES or the category of
\* a stored row, never an empty text.)
FormInputs == {BaseForm, OtherForm, NanForm}

\* The fillings _validate_form refuses: BaseForm with an impossible date, with a
\* negative amount, and with an amount text that float() rejects.
InvalidFormInputs ==
  { [BaseForm EXCEPT !.date_input = DateInvalid] }
    \cup { [BaseForm EXCEPT !.amount_var = a] : a \in {AmountNegative, AmountWord} }

\* The valid fillings typed where the claims are about the queries: three dates
\* (one of them not zero-padded) and two missions.
QueryForms ==
  { [BaseForm EXCEPT !.date_input = d, !.mission_entry = m] :
      d \in {DateCanonical, DateShort, DateFebruary}, m \in {MissionA, MissionAb} }

\* The texts typed into the From Date and To Date filter fields.
FilterDateInputs == {EmptyText, DateCanonical, DateShort, DateInvalid}

\* The texts typed into the Mission filter field: "", "A", "B", "_b".
FilterMissionInputs == {EmptyText, MissionA, <<"B">>, <<"_", "b">>}

(***************************************************************************)
(* Bounds.                                                                 *)
(***************************************************************************)

\* The largest id the store hands out in a run of the model.
MaxId == 2

(***************************************************************************)
(* State.                                                                  *)
(***************************************************************************)

\* Python's None, and SQL's NULL, in a column or field that otherwise holds text.
NULL == <<"NULL">>

\* selected_expense_id = None
NoneId == 0

\* There is no file at save_path.
NoFile == << "no file" >>

VARIABLES
  db,                   \* the rows of table expenses
  seq,                  \* sqlite_sequence: the largest id AUTOINCREMENT has assigned
  files,                \* the image files in receipts/
  selected_expense_id,  \* self.selected_expense_id
  current_image_path,   \* self.current_image_path
  date_input,           \* the text of self.date_input
  category_var,         \* self.category_var
  amount_var,           \* self.amount_var
  description_entry,    \* the text of self.description_entry
  mission_entry,        \* the text of self.mission_entry
  image_path_var,       \* self.image_path_var
  filter_mission_entry, \* the text of self.filter_mission_entry
  tree,                 \* the rows of self.tree, top to bottom
  issued,               \* history: every id an INSERT has assigned
  pc,                   \* where export_pdf stands: "idle", or "rows" inside its loop
  export_rows,          \* export_pdf: rows, the records fetched for the report
  export_index,         \* export_pdf: index, the number of the row drawn next
  export_y,             \* export_pdf: y, the height of the next line, in 1/1000 point
  canvas,               \* export_pdf: c, the canvas: a sequence of pages of drawn items
  pdf,                  \* the document in the file at save_path
  saves,                \* history: the calls of c.save() in the export last started
  last,                 \* history: the last handler run, how it ended, and (add, update,
                        \* delete) the texts the form held when the button was pressed
  write_lock            \* the write lock of expenses.db is held by the transaction of a
                        \* failed INSERT or UPDATE that no rollback has ended

formVars ==
  << selected_expense_id, current_image_path, date_input, category_var, amount_var,
     description_entry, mission_entry, image_path_var >>

\* The locals of export_pdf, and what it writes.
exportVars == << pc, export_rows, export_index, export_y, canvas, pdf, saves >>

vars ==
  << db, seq, files, selected_expense_id, current_image_path, date_input,
     category_var, amount_var, description_entry, mission_entry, image_path_var,
     filter_mission_entry, tree, issued, last, pc, export_rows, export_index, export_y,
     canvas, pdf, saves, write_lock >>

Ids(rows) == { r.id : r \in rows }

Max(S) == IF S = {} THEN 0 ELSE CHOOSE m \in S : \A n \in S : n <= m

(***************************************************************************)
(* Queries.                                                                *)
(***************************************************************************)

\* ORDER BY date DESC, id DESC: r comes before q.
OrderedBefore(r, q) ==
  \/ TextLess(q.date, r.date)
  \/ q.date = r.date /\ q.id < r.id

RECURSIVE OrderByDateDescIdDesc(_)
OrderByDateDescIdDesc(rows) ==
  IF rows = {} THEN <<>>
  ELSE LET first == CHOOSE r \in rows : \A q \in rows \ {r} : OrderedBefore(r, q)
       IN  <<first>> \o OrderByDateDescIdDesc(rows \ {first})

\* SELECT * FROM expenses ORDER BY date DESC, id DESC
SelectAll(rows) == OrderByDateDescIdDesc(rows)

\* The WHERE clause filter_expenses builds: each condition is there only when
\* its parameter is (from_str, to_str are NULL and mission is empty otherwise).
FilterWhere(r, from_str, to_str, mission) ==
  /\ from_str # NULL => TextLeq(from_str, r.date)
  /\ to_str # NULL => TextLeq(r.date, to_str)
  /\ mission # EmptyText => Like(<<"%">> \o mission \o <<"%">>, r.mission)

SelectFiltered(rows, from_str, to_str, mission) ==
  OrderByDateDescIdDesc({ r \in rows : FilterWhere(r, from_str, to_str, mission) })

\* The values _populate_tree inserts for a row: Tk holds every one as text.
TreeValues(r) ==
  [id |-> Digits(r.id, 1), date |-> r.date, category |-> r.category,
   amount |-> FormatAmount(r.amount), description |-> r.description,
   mission |-> r.mission,
   image_path |-> IF r.image_path = NULL THEN EmptyText ELSE r.image_path]

_populate_tree(rows) == [ i \in 1..Len(rows) |-> TreeValues(rows[i]) ]

(***************************************************************************)
(* The form.                                                               *)
(***************************************************************************)

\* The texts the six typed widgets hold.
Widgets ==
  [date_input |-> date_input, category_var |-> category_var,
   amount_var |-> amount_var, description_entry |-> description_entry,
   mission_entry |-> mission_entry, image_path_var |-> image_path_var]

\* The user has typed nothing since the last handler.
NoTyping == [typed |-> FALSE]

\* What the widgets hold when a button is pressed after the user typed p.
Typed(p) == IF p = NoTyping THEN Widgets ELSE p

\* The widgets keep the texts w.
KeepWidgets(w) ==
  /\ date_input' = w.date_input
  /\ category_var' = w.category_var
  /\ amount_var' = w.amount_var
  /\ description_entry' = w.description_entry
  /\ mission_entry' = w.mission_entry
  /\ image_path_var' = w.image_path_var

\* _validate_form on the widget texts w: (ok, err).  NaN is a float and is
\* not < 0, so it passes.
_validate_form(w) ==
  LET date_str   == strip(w.date_input)
      category   == strip(w.category_var)
      amount_val == float(RemoveCommas(strip(w.amount_var)))
  IN  IF ~parse_date_str(date_str).ok
        THEN [ok |-> FALSE, err |-> "Invalid date. Use YYYY-MM-DD."]
      ELSE IF category = EmptyText
        THEN [ok |-> FALSE, err |-> "Category is required."]
      ELSE IF ~amount_val.ok
        THEN [ok |-> FALSE, err |-> "Amount must be a number."]
      ELSE IF ~amount_val.nan /\ amount_val.val < 0
        THEN [ok |-> FALSE, err |-> "Amount cannot be negative."]
      ELSE [ok |-> TRUE, err |-> ""]

\* image_path = self.current_image_path or self.image_path_var.get().strip() or None
FormImagePath(w) ==
  IF current_image_path # NULL /\ current_image_path # EmptyText THEN current_image_path
  ELSE IF strip(w.image_path_var) # EmptyText THEN strip(w.image_path_var)
  ELSE NULL

\* _get_form_values on the widget texts w (a form _validate_form has passed).
_get_form_values(w) ==
  [date        |-> strip(w.date_input),
   category    |-> strip(w.category_var),
   amount      |-> float(RemoveCommas(strip(w.amount_var))),
   description |-> strip(w.description_entry),
   mission     |-> strip(w.mission_entry),
   image_path  |-> FormImagePath(w)]

\* clear_form without its first statement: the selection is kept.
ClearFormKeepsSelection ==
  /\ selected_expense_id' = selected_expense_id
  /\ date_input' = format_date(Today)
  /\ category_var' = CATEGORIES[1]
  /\ amount_var' = EmptyText
  /\ description_entry' = EmptyText
  /\ mission_entry' = EmptyText
  /\ image_path_var' = EmptyText
  /\ current_image_path' = NULL

\* The body of clear_form.
ClearFormFields ==
  /\ selected_expense_id' = NoneId
  /\ date_input' = format_date(Today)
  /\ category_var' = CATEGORIES[1]
  /\ amount_var' = EmptyText
  /\ description_entry' = EmptyText
  /\ mission_entry' = EmptyText
  /\ image_path_var' = EmptyText
  /\ current_image_path' = NULL

\* The body of load_expenses, on the rows the table then holds.
LoadRows(rows) ==
  /\ filter_mission_entry' = EmptyText
  /\ tree' = _populate_tree(SelectAll(rows))

(***************************************************************************)
(* The statements run on the table.                                        *)
(***************************************************************************)

\* NextId as a table without AUTOINCREMENT would give it: one more than the
\* largest id now in the table.
NextIdOfRowsOnly(rows, s) == Max(Ids(rows)) + 1

\* The id INTEGER PRIMARY KEY AUTOINCREMENT gives the next row: one more than
\* the largest id ever assigned, which sqlite_sequence remembers.
NextId(rows, s) == Max(Ids(rows) \cup {s}) + 1

\* INSERT INTO expenses(date, category, amount, description, mission, image_path)
InsertRow(rows, id, v) ==
  rows \cup { [id |-> id, date |-> v.date, category |-> v.category,
               amount |-> v.amount.val, description |-> v.description,
               mission |-> v.mission, image_path |-> v.image_path] }

\* UPDATE expenses SET date=?, category=?, amount=?, description=?, mission=?,
\* image_path=? WHERE id=?
UpdateRow(rows, id, v) ==
  { IF r.id = id
      THEN [id |-> r.id, date |-> v.date, category |-> v.category,
            amount |-> v.amount.val, description |-> v.description,
            mission |-> v.mission, image_path |-> v.image_path]
      ELSE r : r \in rows }

\* DELETE FROM expenses WHERE id=?
DeleteRow(rows, id) == { r \in rows : r.id # id }

\* What delete_expense does to the files under receipts/: nothing.
FilesAfterDelete(fs, rows, id) == fs

(***************************************************************************)
(* The handlers.  The texts in the widgets when a button is pressed are    *)
(* the handler's input: p is what the user typed into the form since the   *)
(* last handler (NoTyping: the form is as that handler left it).           *)
(***************************************************************************)

Init ==
  /\ db = {}
  /\ seq = 0
  /\ files = {}
  /\ selected_expense_id = NoneId
  /\ current_image_path = NULL
  /\ date_input = format_date(Today)
  /\ category_var = CATEGORIES[1]
  /\ amount_var = EmptyText
  /\ description_entry = EmptyText
  /\ mission_entry = EmptyText
  /\ image_path_var = EmptyText
  /\ filter_mission_entry = EmptyText
  /\ tree = <<>>
  /\ issued = {}
  /\ last = [op |-> "__init__", outcome |-> "ok"]
  /\ write_lock = FALSE
  /\ pc = "idle"
  /\ export_rows = <<>>
  /\ export_index = 1
  /\ export_y = 0
  /\ canvas = <<>>
  /\ pdf = NoFile
  /\ saves = 0

\* Browse...: the chosen image is saved under receipts/ and becomes the form's.
select_image_file ==
  /\ files' = files \cup {ReceiptImage}
  /\ current_image_path' = ReceiptImage
  /\ image_path_var' = ReceiptImage
  /\ last' = [op |-> "select_image_file", outcome |-> "ok"]
  /\ UNCHANGED << db, seq, selected_expense_id, date_input, category_var, amount_var,
                  description_entry, mission_entry, filter_mission_entry, tree, issued, write_lock,
                  exportVars >>

\* Paste from Clipboard, with what the clipboard holds: an image or the path of
\* an image file (found), which is saved under receipts/ and becomes the
\* form's, or nothing of the kind ("No image found in clipboard.").
paste_image_from_clipboard(found) ==
  /\ IF found
       THEN /\ files' = files \cup {ReceiptImage}
            /\ current_image_path' = ReceiptImage
            /\ image_path_var' = ReceiptImage
            /\ last' = [op |-> "paste_image_from_clipboard", outcome |-> "ok"]
       ELSE /\ last' = [op |-> "paste_image_from_clipboard", outcome |-> "No image"]
            /\ UNCHANGED << files, current_image_path, image_path_var >>
  /\ UNCHANGED << db, seq, selected_expense_id, date_input, category_var, amount_var,
                  description_entry, mission_entry, filter_mission_entry, tree, issued, write_lock,
                  exportVars >>

\* A handler that returns early after the user typed w: the table, the tree
\* and the selection are as they were.
Refused(op, outcome, w) ==
  /\ last' = [op |-> op, outcome |-> outcome, input |-> w]
  /\ KeepWidgets(w)
  /\ UNCHANGED << db, seq, files, selected_expense_id, current_image_path,
                  filter_mission_entry, tree, issued, write_lock, exportVars >>

\* A handler that raises out of its Tk callback after the user typed w.  The
\* finally clause closes the connection without a rollback, and
\* report_callback_exception puts the traceback, and with it the cursor, in
\* sys.last_traceback, in place of the one kept there before: the transaction of
\* a failed INSERT or UPDATE stays open and holds the write lock of expenses.db
\* until the next traceback takes the place of this one.
Raised(op, outcome, w) ==
  /\ last' = [op |-> op, outcome |-> outcome, input |-> w]
  /\ KeepWidgets(w)
  /\ write_lock' = (outcome = "IntegrityError")
  /\ UNCHANGED << db, seq, files, selected_expense_id, current_image_path,
                  filter_mission_entry, tree, issued, exportVars >>

\* The rows left of rows when another instance has deleted those with an id in gone.
RowsLeft(rows, gone) == { r \in rows : r.id \notin gone }

\* Add, with the ids of the rows that another instance deletes between the
\* commit and load_expenses (gone).  A NaN amount is bound as NULL and the
\* INSERT raises IntegrityError (amount REAL NOT NULL); while the write lock is
\* held the INSERT raises OperationalError: database is locked.  An exception
\* leaves the handler before clear_form.
add_expense_interleaved(p, gone) ==
  LET w  == Typed(p)
      v  == _validate_form(w)
      f  == _get_form_values(w)
      id == NextId(db, seq)
  IN  IF ~v.ok THEN Refused("add_expense", "Validation Error", w)
      ELSE IF write_lock THEN Raised("add_expense", "OperationalError", w)
      ELSE IF f.amount.nan THEN Raised("add_expense", "IntegrityError", w)
      ELSE
        /\ id <= MaxId
        /\ db' = RowsLeft(InsertRow(db, id, f), gone)
        /\ seq' = id
        /\ issued' = issued \cup {id}
        /\ ClearFormFields
        /\ LoadRows(db')
        /\ last' = [op |-> "add_expense", outcome |-> "ok", input |-> w]
        /\ UNCHANGED << files, exportVars, write_lock >>

\* Add, with no other instance at work.
add_expense(p) == add_expense_interleaved(p, {})

\* Update, with the ids of the rows that another instance deletes between the
\* commit and load_expenses (gone).  An UPDATE that matches no row is no error;
\* with a NaN amount it raises IntegrityError when there is a row to update;
\* while the write lock is held it raises OperationalError: database is locked.
edit_expense_interleaved(p, gone) ==
  LET w == Typed(p)
      v == _validate_form(w)
      f == _get_form_values(w)
  IN  IF selected_expense_id = NoneId THEN Refused("edit_expense", "No selection", w)
      ELSE IF ~v.ok THEN Refused("edit_expense", "Validation Error", w)
      ELSE IF write_lock THEN Raised("edit_expense", "OperationalError", w)
      ELSE IF f.amount.nan /\ selected_expense_id \in Ids(db)
        THEN Raised("edit_expense", "IntegrityError", w)
      ELSE
        /\ db' = RowsLeft(UpdateRow(db, selected_expense_id, f), gone)
        /\ ClearFormFields
        /\ LoadRows(db')
        /\ last' = [op |-> "edit_expense", outcome |-> "ok", input |-> w]
        /\ UNCHANGED << seq, files, issued, write_lock, exportVars >>

\* Update, with no other instance at work.
edit_expense(p) == edit_expense_interleaved(p, {})

\* Delete, with the user's answer to "Are you sure you want to delete this
\* expense?" and the ids of the rows that another instance deletes between the
\* commit and load_expenses (gone).  While the write lock is held the DELETE
\* raises OperationalError: database is locked.
delete_expense_interleaved(confirmed, gone) ==
  IF selected_expense_id = NoneId THEN Refused("delete_expense", "No selection", Widgets)
  ELSE IF ~confirmed THEN Refused("delete_expense", "declined", Widgets)
  ELSE IF write_lock THEN Raised("delete_expense", "OperationalError", Widgets)
  ELSE
    /\ db' = RowsLeft(DeleteRow(db, selected_expense_id), gone)
    /\ files' = FilesAfterDelete(files, db, selected_expense_id)
    /\ ClearFormFields
    /\ LoadRows(db')
    /\ last' = [op |-> "delete_expense", outcome |-> "ok", input |-> Widgets]
    /\ UNCHANGED << seq, issued, write_lock, exportVars >>

\* Delete, with no other instance at work.
delete_expense(confirmed) == delete_expense_interleaved(confirmed, {})

\* Show All.
load_expenses ==
  /\ LoadRows(db)
  /\ last' = [op |-> "load_expenses", outcome |-> "ok"]
  /\ UNCHANGED << db, seq, files, formVars, issued, write_lock, exportVars >>

\* _get_filter_date_value of an Entry holding text: the stripped text as typed
\* once it parses, None when it is empty; raised = TRUE where parse_date_str raises.
_get_filter_date_value(text) ==
  LET v2 == strip(text)
  IN  IF v2 = EmptyText THEN [raised |-> FALSE, value |-> NULL]
      ELSE IF ~parse_date_str(v2).ok THEN [raised |-> TRUE, value |-> NULL]
      ELSE [raised |-> FALSE, value |-> v2]

\* Filter, with the texts typed into the From Date, To Date and Mission filter
\* fields.  The two date fields are read by this handler alone.  The ValueError
\* of parse_date_str leaves the handler: its traceback takes the place of the
\* one kept before, which ends the transaction that held the write lock.
filter_expenses(from_text, to_text, mission_text) ==
  LET from_str == _get_filter_date_value(from_text)
      to_str   == _get_filter_date_value(to_text)
      mission  == strip(mission_text)
  IN  /\ filter_mission_entry' = mission_text
      /\ IF from_str.raised \/ to_str.raised THEN
           /\ last' = [op |-> "filter_expenses", outcome |-> "ValueError"]
           /\ write_lock' = FALSE
           /\ UNCHANGED tree
         ELSE
           /\ tree' = _populate_tree(SelectFiltered(db, from_str.value, to_str.value, mission))
           /\ last' = [op |-> "filter_expenses", outcome |-> "ok",
                       from_str |-> from_str.value, to_str |-> to_str.value,
                       mission |-> mission]
           /\ UNCHANGED write_lock
      /\ UNCHANGED << db, seq, files, formVars, issued, exportVars >>

\* A double click on row i of the tree loads it into the form.
on_tree_double_click(i) ==
  LET values == tree[i]
      path == values.image_path
  IN  /\ selected_expense_id' = DigitsVal(values.id)
      /\ date_input' = values.date
      /\ category_var' = values.category
      /\ amount_var' = values.amount
      /\ description_entry' = values.description
      /\ mission_entry' = values.mission
      /\ image_path_var' = path
      /\ current_image_path' = IF path # EmptyText THEN path ELSE NULL
      /\ last' = [op |-> "on_tree_double_click", outcome |-> "ok"]
      /\ UNCHANGED << db, seq, files, filter_mission_entry, tree, issued, write_lock, exportVars >>

\* Clear.
clear_form ==
  /\ ClearFormFields
  /\ last' = [op |-> "clear_form", outcome |-> "ok"]
  /\ UNCHANGED << db, seq, files, filter_mission_entry, tree, issued, write_lock, exportVars >>

(***************************************************************************)
(* Spec: the form and the table.                                           *)
(***************************************************************************)

Next ==
  \/ select_image_file
  \/ \E found \in BOOLEAN : paste_image_from_clipboard(found)
  \/ \E p \in FormInputs \cup {NoTyping} : add_expense(p)
  \/ \E p \in FormInputs \cup {NoTyping} : edit_expense(p)
  \/ \E confirmed \in BOOLEAN : delete_expense(confirmed)
  \/ load_expenses
  \/ \E i \in 1..Len(tree) : on_tree_double_click(i)
  \/ clear_form

Spec == Init /\ [][Next]_vars

(***************************************************************************)
(* SpecValidate: Add and Update with every filling, those that             *)
(* _validate_form refuses included.                                        *)
(***************************************************************************)

NextValidate ==
  \/ \E p \in FormInputs \cup InvalidFormInputs \cup {NoTyping} : add_expense(p)
  \/ \E p \in FormInputs \cup InvalidFormInputs \cup {NoTyping} : edit_expense(p)
  \/ \E i \in 1..Len(tree) : on_tree_double_click(i)
  \/ clear_form

SpecValidate == Init /\ [][NextValidate]_vars

(***************************************************************************)
(* SpecQuery: the table filled through Add, and the two queries.           *)
(***************************************************************************)

NextQuery ==
  \/ \E p \in QueryForms : add_expense(p)
  \/ load_expenses
  \/ \E from_text \in FilterDateInputs, to_text \in FilterDateInputs,
        mission_text \in FilterMissionInputs :
       filter_expenses(from_text, to_text, mission_text)

SpecQuery == Init /\ [][NextQuery]_vars

(***************************************************************************)
(* SpecShared: a second running instance of the application deletes rows   *)
(* of the same expenses.db (every handler opens the file anew), also       *)
(* between the commit of Add, Update or Delete and the load_expenses that  *)
(* follows it.                                                             *)
(***************************************************************************)

\* delete_expense, confirmed, in the other instance, of a row it has selected.
\* While the write lock is held its DELETE raises and the table stays.
OtherInstanceDelete ==
  /\ ~write_lock
  /\ \E r \in db : db' = DeleteRow(db, r.id)
  /\ UNCHANGED << seq, files, formVars, filter_mission_entry, tree, issued, write_lock,
                  last, exportVars >>

\* The sets of ids the other instance deletes inside one handler of this one.
GoneInputs == SUBSET (1..MaxId) \ {{}}

NextShared ==
  \/ Next
  \/ OtherInstanceDelete
  \/ \E p \in FormInputs \cup {NoTyping}, gone \in GoneInputs :
       add_expense_interleaved(p, gone)
  \/ \E p \in FormInputs \cup {NoTyping}, gone \in GoneInputs :
       edit_expense_interleaved(p, gone)
  \/ \E confirmed \in BOOLEAN, gone \in GoneInputs :
       delete_expense_interleaved(confirmed, gone)

SpecShared == Init /\ [][NextShared]_vars

(***************************************************************************)
(* export_pdf, in the build with ReportLab and Pillow installed.  It is    *)
(* modelled as a process: export_pdf runs up to the loop over the rows,    *)
(* export_row is one pass of the loop, export_save is what follows it.     *)
(* Lengths are whole numbers of 1/1000 point; an image size is in pixels.  *)
(***************************************************************************)

\* page_width, page_height = A4: 595.2756 x 841.8898 points.
page_width == 595276

page_height == 841890

line_height == 16000

image_max_width == page_width - 80000

\* 300.0, the height an image is fitted into.
ImageMaxHeight == 300000

\* 60: below it a new page is begun.
PageBottom == 60000

\* y = page_height - 100, where the first line under the title lines is drawn.
PageTop == page_height - 100000

\* Files that may lie on the disk: "s.jpg" (beside "r.jpg") is a readable image,
\* "u.txt" is a file that is no image, "m.jpg" is the path of no file.
SmallImage == <<"s", ".", "j", "p", "g">>

NoImageFile == <<"u", ".", "t", "x", "t">>

MissingImage == <<"m", ".", "j", "p", "g">>

\* im.size of the readable images: (width, height) in pixels.
ImageSizes ==
  [ path \in {ReceiptImage, SmallImage} |->
      IF path = ReceiptImage THEN [width |-> 1024, height |-> 768]
      ELSE [width |-> 100, height |-> 50] ]

\* ORDER BY date ASC, id ASC: r comes before q.
OrderedBeforeAsc(r, q) ==
  \/ TextLess(r.date, q.date)
  \/ r.date = q.date /\ r.id < q.id

RECURSIVE OrderByDateAscIdAsc(_)
OrderByDateAscIdAsc(table) ==
  IF table = {} THEN <<>>
  ELSE LET first == CHOOSE r \in table : \A q \in table \ {r} : OrderedBeforeAsc(r, q)
       IN  <<first>> \o OrderByDateAscIdAsc(table \ {first})

\* The same query with the store's filter predicate in the place of equality.
SelectMissionLike(table, mission) ==
  OrderByDateAscIdAsc({ r \in table : Like(<<"%">> \o mission \o <<"%">>, r.mission) })

\* SELECT * FROM expenses WHERE mission = ? ORDER BY date ASC, id ASC
SelectMission(table, mission) ==
  OrderByDateAscIdAsc({ r \in table : r.mission = mission })

\* What is drawn on a page: c.drawString of the title, of the generation date,
\* of the six headers at y, of the six values of a row at y, and c.drawImage.
TitleItem(mission) ==
  [kind |-> "title", at |-> page_height - 50000, text |-> <<mission>>, w |-> 0, h |-> 0]

SubtitleItem ==
  [kind |-> "subtitle", at |-> page_height - 70000, text |-> <<format_date(Today)>>,
   w |-> 0, h |-> 0]

\* headers (the Persian words for:) #, date, category, amount, description, mission
HeaderItem(at) ==
  [kind |-> "header", at |-> at,
   text |-> << <<"#">>, <<"d", "a", "t", "e">>, <<"c", "a", "t", "e", "g", "o", "r", "y">>,
               <<"a", "m", "o", "u", "n", "t">>,
               <<"d", "e", "s", "c", "r", "i", "p", "t", "i", "o", "n">>,
               <<"m", "i", "s", "s", "i", "o", "n">> >>,
   w |-> 0, h |-> 0]

\* values: str(index), date, category, amount with two decimals, description, mission
RowItem(at, i, r) ==
  [kind |-> "row", at |-> at,
   text |-> << Digits(i, 1), r.date, r.category, FormatAmount(r.amount), r.description,
               r.mission >>,
   w |-> 0, h |-> 0]

ImageItem(at, path, new_w, new_h) ==
  [kind |-> "image", at |-> at, text |-> <<path>>, w |-> new_w, h |-> new_h]

\* c.drawString / c.drawImage: on the page the canvas is at.
Draw(cv, item) == [cv EXCEPT ![Len(cv)] = Append(@, item)]

\* c.showPage() and the title and generation-date lines drawn after it.
ShowPageWithTitle(cv) == Append(cv, << cv[1][1], cv[1][2] >>)

\* scale = min(image_max_width / width, 300.0 / height); new_w, new_h = the size
\* times scale (to the 1/1000 point below).
ScaledSize(width, height) ==
  IF image_max_width * height <= ImageMaxHeight * width
    THEN [new_w |-> image_max_width, new_h |-> (height * image_max_width) \div width]
    ELSE [new_w |-> (width * ImageMaxHeight) \div height, new_h |-> ImageMaxHeight]

\* The image block of the loop on row r with the row's text drawn and y at y1:
\* the canvas and y after it.  ImageReader raises on a file that is no image,
\* before anything is drawn, and the exception is passed over.
RenderImage(cv, y1, r, fs) ==
  IF r.image_path \in {NULL, EmptyText} \/ r.image_path \notin fs
       \/ r.image_path \notin DOMAIN ImageSizes
    THEN [c |-> cv, y |-> y1]
  ELSE LET size  == ImageSizes[r.image_path]
           s     == ScaledSize(size.width, size.height)
           break == y1 - s.new_h < PageBottom
           cv1   == IF break THEN ShowPageWithTitle(cv) ELSE cv
           y2    == IF break THEN PageTop ELSE y1
       IN  [c |-> Draw(cv1, ImageItem(y2 - s.new_h, r.image_path, s.new_w, s.new_h)),
            y |-> y2 - (s.new_h + 8000)]

\* The export returns before a canvas is made.
ExportReturns(outcome, mission, mission_text) ==
  /\ last' = [op |-> "export_pdf", outcome |-> outcome, mission |-> mission]
  /\ filter_mission_entry' = mission_text
  /\ UNCHANGED << db, seq, files, formVars, tree, issued, write_lock, exportVars >>

\* Export PDF, with the text typed into the Mission filter field, the answer to
\* "Enter mission to export:" (None on Cancel) and the path chosen in the save
\* dialog ("" on Cancel): up to the loop over the rows.
export_pdf(mission_text, prompt, save_path) ==
  LET typed   == IF strip(mission_text) # EmptyText THEN strip(mission_text)
                 ELSE strip(mission_entry)
      mission == IF typed # EmptyText THEN typed ELSE prompt
      fetched == SelectMission(db, mission)
  IN  /\ pc = "idle"
      /\ IF mission \in {NULL, EmptyText} THEN ExportReturns("No mission", mission, mission_text)
         ELSE IF fetched = <<>> THEN ExportReturns("No Data", mission, mission_text)
         ELSE IF save_path = EmptyText THEN ExportReturns("No path", mission, mission_text)
         ELSE
           /\ pc' = "rows"
           /\ export_rows' = fetched
           /\ export_index' = 1
           /\ canvas' = << << TitleItem(mission), SubtitleItem, HeaderItem(PageTop) >> >>
           /\ export_y' = PageTop - line_height - 6000
           /\ saves' = 0
           /\ last' = [op |-> "export_pdf", outcome |-> "started", mission |-> mission]
           /\ filter_mission_entry' = mission_text
           /\ UNCHANGED << db, seq, files, formVars, tree, issued, write_lock, pdf >>

\* export_row without the try/except around the image: the exception of
\* ImageReader leaves export_pdf, nothing is saved.
ExportRowUncaught ==
  LET r == export_rows[export_index]
  IN  /\ pc = "rows"
      /\ export_index <= Len(export_rows)
      /\ IF r.image_path \in files /\ r.image_path \notin DOMAIN ImageSizes
           THEN /\ pc' = "failed"
                /\ UNCHANGED << canvas, export_y, export_index >>
           ELSE /\ pc' = pc
                /\ export_index' = export_index + 1
                /\ LET cv1 == Draw(canvas, RowItem(export_y, export_index, r))
                       img == RenderImage(cv1, export_y - line_height, r, files)
                   IN  IF img.y < PageBottom
                         THEN canvas' = ShowPageWithTitle(img.c) /\ export_y' = PageTop
                         ELSE canvas' = img.c /\ export_y' = img.y
      /\ UNCHANGED << db, seq, files, formVars, filter_mission_entry, tree, issued, write_lock, last,
                      export_rows, pdf, saves >>

\* One pass of "for r in rows": the row's text, its image, the page break.
export_row ==
  /\ pc = "rows"
  /\ export_index <= Len(export_rows)
  /\ LET r   == export_rows[export_index]
         cv1 == Draw(canvas, RowItem(export_y, export_index, r))
         img == RenderImage(cv1, export_y - line_height, r, files)
     IN  IF img.y < PageBottom
           THEN canvas' = ShowPageWithTitle(img.c) /\ export_y' = PageTop
           ELSE canvas' = img.c /\ export_y' = img.y
  /\ export_index' = export_index + 1
  /\ UNCHANGED << db, seq, files, formVars, filter_mission_entry, tree, issued, write_lock, last,
                  pc, export_rows, pdf, saves >>

\* c.save() and the "Export Complete" dialog; the locals are gone with the return.
export_save ==
  /\ pc = "rows"
  /\ export_index > Len(export_rows)
  /\ pdf' = canvas
  /\ saves' = saves + 1
  /\ pc' = "idle"
  /\ export_rows' = <<>>
  /\ export_index' = 1
  /\ export_y' = 0
  /\ canvas' = <<>>
  /\ last' = [last EXCEPT !.outcome = "Export Complete"]
  /\ UNCHANGED << db, seq, files, formVars, filter_mission_entry, tree, issued, write_lock >>

(***************************************************************************)
(* SpecExport: the application started on an expenses.db and a receipts/   *)
(* directory that earlier runs have filled, and the export.                *)
(***************************************************************************)

\* The most rows the table holds when the application starts.
MaxRows == 3

\* Records as Add stores them (without the id): three dates, one of them not
\* zero-padded; missions "A" and "Ab"; no image, a large and a small readable
\* image, a path of no file, and a file that is no image.
StoredRecords ==
  LET base == [date |-> DateCanonical, category |-> CATEGORIES[2], amount |-> 1234567,
               description |-> DescriptionTea, mission |-> MissionA,
               image_path |-> ReceiptImage]
  IN  { base,
        [base EXCEPT !.date = DateShort, !.image_path = NULL],
        [base EXCEPT !.date = DateFebruary, !.image_path = SmallImage],
        [base EXCEPT !.mission = strip(MissionAb)],
        [base EXCEPT !.image_path = MissingImage],
        [base EXCEPT !.date = DateFebruary, !.image_path = NoImageFile] }

\* The tables of at most MaxRows rows with the ids 1, 2, ...
StoredTables ==
  UNION { { { [id |-> i] @@ s[i] : i \in 1..n } : s \in [1..n -> StoredRecords] } :
          n \in 0..MaxRows }

\* The texts typed into the Mission filter field before Export PDF: "", "A", "ab".
ExportMissionInputs == {EmptyText, MissionA, <<"a", "b">>}

\* The answers to the mission prompt: Cancel, "", "Ab".
PromptInputs == {NULL, EmptyText, strip(MissionAb)}

\* The path chosen in the save dialog: none (Cancel), or "o.pdf".
SavePathInputs == {EmptyText, <<"o", ".", "p", "d", "f">>}

\* __init__ on a table and a receipts/ directory that are not empty.
InitExport ==
  /\ db \in StoredTables
  /\ seq = Max(Ids(db))
  /\ files = {ReceiptImage, SmallImage, NoImageFile}
  /\ selected_expense_id = NoneId
  /\ current_image_path = NULL
  /\ date_input = format_date(Today)
  /\ category_var = CATEGORIES[1]
  /\ amount_var = EmptyText
  /\ description_entry = EmptyText
  /\ mission_entry = EmptyText
  /\ image_path_var = EmptyText
  /\ filter_mission_entry = EmptyText
  /\ tree = _populate_tree(SelectAll(db))
  /\ issued = Ids(db)
  /\ last = [op |-> "__init__", outcome |-> "ok"]
  /\ write_lock = FALSE
  /\ pc = "idle"
  /\ export_rows = <<>>
  /\ export_index = 1
  /\ export_y = 0
  /\ canvas = <<>>
  /\ pdf = NoFile
  /\ saves = 0

NextExport ==
  \/ \E mission_text \in ExportMissionInputs, prompt \in PromptInputs,
        save_path \in SavePathInputs :
       export_pdf(mission_text, prompt, save_path)
  \/ export_row
  \/ export_save

SpecExport == InitExport /\ [][NextExport]_vars

\* The loop and what follows it run on: nothing else runs in the event loop
\* while export_pdf does.
SpecExportFair == SpecExport /\ WF_vars(export_row) /\ WF_vars(export_save)

(***************************************************************************)
(* SpecForm: Add, Update, Delete, Show All, Filter, the double click,      *)
(* Clear and Export PDF in one event loop; while export_pdf is in its loop *)
(* no other handler runs.                                                  *)
(***************************************************************************)

\* The fillings typed here: a valid one, and the one whose amount is NaN.
FormFillings == {BaseForm, NanForm}

NextForm ==
  \/ pc = "idle" /\ \E p \in FormFillings \cup {NoTyping} : add_expense(p)
  \/ pc = "idle" /\ \E p \in FormFillings \cup {NoTyping} : edit_expense(p)
  \/ pc = "idle" /\ \E confirmed \in BOOLEAN : delete_expense(confirmed)
  \/ pc = "idle" /\ load_expenses
  \/ pc = "idle" /\ filter_expenses(DateFebruary, EmptyText, EmptyText)
  \/ pc = "idle" /\ \E i \in 1..Len(tree) : on_tree_double_click(i)
  \/ pc = "idle" /\ clear_form
  \/ export_pdf(EmptyText, MissionA, <<"o", ".", "p", "d", "f">>)
  \/ export_row
  \/ export_save

SpecForm == Init /\ [][NextForm]_vars

(***************************************************************************)
(* What the claims speak of.                                               *)
(***************************************************************************)

\* The form holds a valid input: a date that parses, a category, an amount >= 0.
ValidInput(w) ==
  LET amount_val == float(RemoveCommas(strip(w.amount_var)))
  IN  /\ parse_date_str(strip(w.date_input)).ok
      /\ strip(w.category_var) # EmptyText
      /\ amount_val.ok /\ ~amount_val.nan /\ amount_val.val >= 0

\* The form holds what create and update are to refuse: a date that does not
\* parse, no category, an amount that is not a number (a text float() rejects,
\* or NaN), or a negative amount.
InvalidInput(w) ==
  LET amount_val == float(RemoveCommas(strip(w.amount_var)))
  IN  \/ ~parse_date_str(strip(w.date_input)).ok
      \/ strip(w.category_var) = EmptyText
      \/ ~amount_val.ok
      \/ amount_val.nan
      \/ amount_val.val < 0

\* The record the fields of the form w describe, under the id given: the Image
\* field left empty means no image.
GivenRecord(id, w) ==
  [id |-> id, date |-> strip(w.date_input), category |-> strip(w.category_var),
   amount |-> float(RemoveCommas(strip(w.amount_var))).val,
   description |-> strip(w.description_entry), mission |-> strip(w.mission_entry),
   image_path |-> IF strip(w.image_path_var) = EmptyText THEN NULL
                  ELSE strip(w.image_path_var)]

\* The ids of the rows of the tree.
TreeIds == { DigitsVal(tree[i].id) : i \in 1..Len(tree) }

AllInputs == FormInputs \cup {NoTyping}

\* C1: for every valid input, add inserts exactly one new record, which carries
\* the fields given in the form under an id no record had before, the tree then
\* lists it, and every record there was is still there, unchanged.
C1_AddInsertsTheGivenRecord ==
  [][\A p \in AllInputs :
       (add_expense(p) /\ ValidInput(Typed(p))) =>
         \E id \in Ids(db') \ Ids(db) :
           /\ db' = db \cup {GivenRecord(id, Typed(p))}
           /\ id \in TreeIds']_vars

\* C2: no two records share an id, an update leaves the ids as they are, and
\* an id given by create is greater than every id given before, those of
\* deleted records included.
C2_IdsUniqueStableIncreasing ==
  [][/\ Cardinality(Ids(db')) = Cardinality(db')
     /\ last'.op = "edit_expense" => Ids(db') = Ids(db)
     /\ \A id \in Ids(db') \ Ids(db) : \A j \in issued : id > j]_vars

\* C2 witness: a record was created after an earlier one had been deleted.
C2_Witness ==
  /\ last.op = "add_expense" /\ last.outcome = "ok"
  /\ issued \ Ids(db) # {}
  /\ db # {}

\* C3: add, and update of a selected record, end in a validation error whenever
\* the date does not parse, the category is empty, or the amount is negative or
\* not a number, and then the store is exactly as it was: the table, the ids
\* given so far, and no write lock left on the file.
C3_InvalidInputRefused ==
  [][(/\ \/ last'.op = "add_expense"
          \/ (last'.op = "edit_expense" /\ selected_expense_id # NoneId)
      /\ InvalidInput(last'.input)) =>
        /\ last'.outcome = "Validation Error"
        /\ db' = db /\ seq' = seq /\ write_lock' = write_lock]_vars

\* text is written YYYY-MM-DD: four digits, two digits, two digits.
ZeroPadded(text) ==
  /\ Len(text) = 10
  /\ AllDigits(SubSeq(text, 1, 4)) /\ text[5] = "-"
  /\ AllDigits(SubSeq(text, 6, 7)) /\ text[8] = "-"
  /\ AllDigits(SubSeq(text, 9, 10))

\* C4: every stored record has an amount >= 0 and a date that is a valid
\* calendar date written in the zero-padded form YYYY-MM-DD.
C4_StoredDatesCanonical ==
  \A r \in db :
    /\ r.amount >= 0
    /\ parse_date_str(r.date).ok
    /\ ZeroPadded(r.date)

\* C5: an update of an existing record with valid field values leaves that
\* record with the same id and every field as given in the form, the image
\* path too when the Image field is empty.
C5_UpdateReplacesEveryField ==
  [][\A p \in AllInputs :
       (edit_expense(p) /\ selected_expense_id \in Ids(db) /\ ValidInput(Typed(p))) =>
         GivenRecord(selected_expense_id, Typed(p)) \in db']_vars

\* C6: an update or a confirmed delete of an id that has no record never ends
\* as a success.
C6_MissingIdNeverSucceeds ==
  [][(/\ last'.op \in {"edit_expense", "delete_expense"}
      /\ selected_expense_id # NoneId
      /\ selected_expense_id \notin Ids(db)) => last'.outcome # "ok"]_vars

\* C7: a confirmed delete of the selected record, which exists, removes that
\* record and no other, no row of the tree shows it any more, and no file under
\* receipts/ is removed; a declined one changes neither the table nor the files.
C7_DeleteRemovesOnlyThatRecord ==
  [][/\ (/\ last'.op = "delete_expense"
         /\ last'.outcome \notin {"No selection", "declined"}
         /\ selected_expense_id \in Ids(db)) =>
          /\ db' = { r \in db : r.id # selected_expense_id }
          /\ Cardinality(db') = Cardinality(db) - 1
          /\ selected_expense_id \notin TreeIds'
          /\ files' = files
     /\ (last'.op = "delete_expense" /\ last'.outcome = "declined") =>
          (db' = db /\ files' = files)]_vars

\* a is an earlier calendar date than b (both texts parse).
CalendarBefore(a, b) ==
  LET x == parse_date_str(a)
      y == parse_date_str(b)
  IN  \/ x.y < y.y
      \/ x.y = y.y /\ x.m < y.m
      \/ x.y = y.y /\ x.m = y.m /\ x.d < y.d

SameCalendarDate(a, b) == ~CalendarBefore(a, b) /\ ~CalendarBefore(b, a)

CalendarNotAfter(a, b) == ~CalendarBefore(b, a)

\* text holds sub, character for character.
Contains(text, sub) ==
  \E k \in 0..(Len(text) - Len(sub)) : SubSeq(text, k + 1, k + Len(sub)) = sub

\* The tree was last filled by load_expenses.
TreeIsListAll ==
  /\ last.outcome = "ok"
  /\ last.op \in {"load_expenses", "add_expense", "edit_expense", "delete_expense"}

\* C8: list_all shows every stored record exactly once, later calendar dates
\* first and, of two records of one date, the greater id first.
C8_ListAllByCalendarDate ==
  TreeIsListAll =>
    /\ Len(tree) = Cardinality(db)
    /\ { tree[i] : i \in 1..Len(tree) } = { TreeValues(r) : r \in db }
    /\ \A i, j \in 1..Len(tree) :
         i < j =>
           \/ CalendarBefore(tree[j].date, tree[i].date)
           \/ /\ SameCalendarDate(tree[i].date, tree[j].date)
              /\ DigitsVal(tree[i].id) > DigitsVal(tree[j].id)

\* The conjunction of the predicates supplied to filter, as the claim reads
\* them: the bounds compare calendar dates, the mission is a literal substring.
SatisfiesSupplied(r, from_str, to_str, mission) ==
  /\ from_str # NULL => CalendarNotAfter(from_str, r.date)
  /\ to_str # NULL => CalendarNotAfter(r.date, to_str)
  /\ mission # EmptyText => Contains(r.mission, mission)

\* C9: filter returns exactly the records that satisfy every supplied
\* predicate, in the order of list_all.
C9_FilterIsConjunction ==
  (last.op = "filter_expenses" /\ last.outcome = "ok") =>
    tree = _populate_tree(
             SelectSeq(SelectAll(db),
                       LAMBDA r : SatisfiesSupplied(r, last.from_str, last.to_str,
                                                    last.mission)))

\* C10: with a mission supplied, filter returns a record (one within the date
\* bounds) if and only if its mission holds the text character for character.
C10_MissionLiteralSubstring ==
  (last.op = "filter_expenses" /\ last.outcome = "ok" /\ last.mission # EmptyText) =>
    \A r \in db :
      FilterWhere(r, last.from_str, last.to_str, EmptyText) =>
        (r.id \in TreeIds <=> Contains(r.mission, last.mission))

(***************************************************************************)
(* What the claims about the report speak of.                              *)
(***************************************************************************)

RECURSIVE Flatten(_)
\* The items of a document, page after page.
Flatten(doc) == IF doc = <<>> THEN <<>> ELSE Head(doc) \o Flatten(Tail(doc))

IsRow(item) == item.kind = "row"

IsImage(item) == item.kind = "image"

\* The rows, and the images, drawn in a document, top to bottom, page after page.
RowsOf(doc) == SelectSeq(Flatten(doc), IsRow)

ImagesOf(doc) == SelectSeq(Flatten(doc), IsImage)

\* The records whose mission is exactly the one requested.
Matching(mission) == { r \in db : r.mission = mission }

\* An export has written its document.
Exported == last.op = "export_pdf" /\ last.outcome = "Export Complete"

\* C11: an export of a mission that no record has exactly ends with the
\* "No Data" message and writes no file, also when a record's mission
\* contains the requested one or differs from it in case only.
C11_NoDataOnNoExactMatch ==
  [][(/\ pc = "idle"
      /\ last'.op = "export_pdf"
      /\ last'.mission \notin {NULL, EmptyText}
      /\ Matching(last'.mission) = {}) =>
        (last'.outcome = "No Data" /\ pc' = "idle" /\ pdf' = pdf /\ saves' = saves)]_vars

\* C11 witness: "No Data" for a mission that a record's mission contains.
C11_Witness ==
  /\ last.op = "export_pdf" /\ last.outcome = "No Data"
  /\ pdf = NoFile
  /\ \E r \in db : r.mission # last.mission /\ Contains(r.mission, last.mission)

\* r comes before q by calendar date, the smaller id first on one date.
ChronologicallyBefore(r, q) ==
  \/ CalendarBefore(r.date, q.date)
  \/ SameCalendarDate(r.date, q.date) /\ r.id < q.id

RECURSIVE Chronological(_)
\* The records of table, oldest first.
Chronological(table) ==
  IF table = {} THEN <<>>
  ELSE LET first == CHOOSE r \in table : \A q \in table \ {r} : ChronologicallyBefore(r, q)
       IN  <<first>> \o Chronological(table \ {first})

\* C12: the report of a mission shows exactly the records of that mission, each
\* once, oldest first by date and then by id, which is the listing order of
\* those records reversed, and numbers them 1, 2, ..., n.
C12_ReportChronological ==
  Exported =>
    LET rendered == RowsOf(pdf)
        expected == Chronological(Matching(last.mission))
        listed   == OrderByDateDescIdDesc(Matching(last.mission))
        n        == Cardinality(Matching(last.mission))
    IN  /\ Len(rendered) = n
        /\ \A i \in 1..n :
             /\ rendered[i].text = RowItem(0, i, expected[i]).text
             /\ rendered[i].text = RowItem(0, i, listed[n + 1 - i]).text

\* The image file of record r is there and is an image.
Readable(r) == r.image_path \in files /\ r.image_path \in DOMAIN ImageSizes

\* The last element of a sequence that is not empty.
Last(s) == s[Len(s)]

\* C13: once the export is in its loop it ends with the document saved, once,
\* and after the last row; every pass of the loop draws its row, draws the
\* image exactly when the file is there and readable, saves nothing and stays
\* in the loop whatever the image file is.
C13_ExportFinalizes ==
  /\ [][/\ pc' \in {"idle", "rows"}
        /\ (pc = "rows" /\ saves' = saves) =>
             LET r == export_rows[export_index]
             IN  /\ pc' = "rows"
                 /\ export_index' = export_index + 1
                 /\ pdf' = pdf
                 /\ Len(RowsOf(canvas')) = Len(RowsOf(canvas)) + 1
                 /\ Last(RowsOf(canvas')).text = RowItem(0, export_index, r).text
                 /\ Len(ImagesOf(canvas')) =
                      Len(ImagesOf(canvas)) + (IF Readable(r) THEN 1 ELSE 0)
                 /\ Readable(r) => Last(ImagesOf(canvas')).text = <<r.image_path>>
        /\ (pc = "rows" /\ saves' # saves) =>
             /\ saves = 0 /\ saves' = 1
             /\ export_index = Len(export_rows) + 1
             /\ Len(RowsOf(canvas)) = Len(export_rows)
             /\ pdf' = canvas
             /\ pc' = "idle"
             /\ last'.outcome = "Export Complete"
        /\ pc = "idle" => pdf' = pdf]_vars
  /\ (pc = "rows") ~> (pc = "idle" /\ Exported /\ saves = 1)

\* C13 witness: a finished export of three records, one with a readable image,
\* one whose image file is missing and one whose file is no image.
C13_Witness ==
  /\ Exported /\ saves = 1
  /\ Len(RowsOf(pdf)) = 3
  /\ Len(ImagesOf(pdf)) = 1
  /\ \E r \in Matching(last.mission) : r.image_path = MissingImage
  /\ \E r \in Matching(last.mission) : r.image_path = NoImageFile

\* The natural size, in 1/1000 point, of the image an item shows.
NaturalWidth(item) == 1000 * ImageSizes[item.text[1]].width

NaturalHeight(item) == 1000 * ImageSizes[item.text[1]].height

\* w : h is width : height, up to the rounding to 1/1000 point.
KeepsAspectRatio(item) ==
  LET size == ImageSizes[item.text[1]]
      d    == item.w * size.height - item.h * size.width
  IN  d <= size.width + size.height /\ -d <= size.width + size.height

\* C14: every image of the report is placed no larger than its natural size, no
\* wider than the content width and no higher than 300 points, with its aspect
\* ratio kept, and at its natural size when that fits the box.
C14_ImagesNeverUpscaled ==
  \A i \in 1..Len(ImagesOf(canvas)) :
    LET item == ImagesOf(canvas)[i]
    IN  /\ item.w <= NaturalWidth(item) /\ item.h <= NaturalHeight(item)
        /\ item.w <= image_max_width /\ item.h <= ImageMaxHeight
        /\ KeepsAspectRatio(item)
        /\ (NaturalWidth(item) <= image_max_width /\ NaturalHeight(item) <= ImageMaxHeight)
             => (item.w = NaturalWidth(item) /\ item.h = NaturalHeight(item))

\* The page begins with the title line, the generation-date line and the
\* header row, in this order.
CarriesAllThree(page) ==
  /\ Len(page) >= 3
  /\ page[1].kind = "title"
  /\ page[2].kind = "subtitle"
  /\ page[3].kind = "header"

\* C15: every page of the report, the first and each one begun by a page
\* break, begins with the title line, the generation-date line and the
\* six-column header row, before any row or image.
C15_EveryPageCarriesHeader ==
  \A k \in 1..Len(canvas) : CarriesAllThree(canvas[k])

\* C16: the selection is None or the id of a record of the table; an add, an
\* update and a confirmed delete that went through leave it None; an update
\* or a delete that got as far as its statement, went it through or not, was
\* of a record there was.
C16_SelectionIsARecord ==
  /\ [](selected_expense_id = NoneId \/ selected_expense_id \in Ids(db))
  /\ [][/\ (last'.op \in {"add_expense", "edit_expense", "delete_expense"}
             /\ last'.outcome = "ok") => selected_expense_id' = NoneId
        /\ (/\ last'.op \in {"edit_expense", "delete_expense"}
            /\ last'.outcome \in {"ok", "IntegrityError", "OperationalError"})
             => selected_expense_id \in Ids(db)]_vars

\* C16 witness: a record is still selected after an update of it failed for the
\* write lock, while the tree, filtered, lists fewer records than the table holds.
C16_Witness ==
  /\ selected_expense_id \in Ids(db)
  /\ last.op = "edit_expense" /\ last.outcome = "OperationalError"
  /\ Len(tree) < Cardinality(db)

\* What the six widgets hold after a double click on the row of record r.
LoadedForm(r) ==
  [date_input |-> TreeValues(r).date, category_var |-> TreeValues(r).category,
   amount_var |-> TreeValues(r).amount, description_entry |-> TreeValues(r).description,
   mission_entry |-> TreeValues(r).mission, image_path_var |-> TreeValues(r).image_path]

\* The form is as a double click on the row of the selected record left it.
FormAsLoaded ==
  \E r \in db :
    /\ r.id = selected_expense_id
    /\ Widgets = LoadedForm(r)
    /\ current_image_path = r.image_path

\* C17: Update pressed on a record just loaded by a double click, with no
\* field edited, leaves every record of the table as it was.
C17_ReloadUpdateIsNoOp ==
  [][(FormAsLoaded /\ last'.op = "edit_expense" /\ last'.input = Widgets) => db' = db]_vars

====
